---- MODULE Spec2Model ----
(***************************************************************************)
(* Model of the UETNet numerology engine (numerology_engine.py) and of the *)
(* dashboard code that consumes it (app.py).                               *)
(*                                                                         *)
(* Characters are Unicode code points (integers); a Python str is a        *)
(* sequence of code points; a Python dict is a function whose DOMAIN is    *)
(* the set of keys.                                                        *)
(***************************************************************************)
EXTENDS Integers, Sequences, FiniteSets, TLC

VARIABLES
    \* numerology_engine module globals
    pythagorean_map, hebrew_map, greek_map, glyph_registry,
    \* one sequential call into the engine, statement by statement
    fn, arg, pc, text, nfkd_form, text_norm, pyth, heb, grk, root, prime_sig,
    n, factors, d, temp_n, ret,
    \* two calls of numerology_vector running concurrently
    calls,
    \* the dashboard (app.py)
    module_present, NUMEROLOGY_AVAILABLE, ne, app_pc, page, user_input,
    sidecar, shown, footer_num_val, raised

engine_globals == <<pythagorean_map, hebrew_map, greek_map, glyph_registry>>
seq_vars == <<fn, arg, pc, text, nfkd_form, text_norm, pyth, heb, grk, root, prime_sig,
              n, factors, d, temp_n, ret>>
app_vars == <<module_present, NUMEROLOGY_AVAILABLE, ne, app_pc, page,
              user_input, sidecar, shown, footer_num_val, raised>>
vars == <<engine_globals, seq_vars, calls, app_vars>>
\* what a sequential call does not touch
outside_call == <<engine_globals, calls, app_vars>>

----------------------------------------------------------------------------
(* Bounds of the model *)

\* longest input text of a sequential call
MaxLen == 2
\* longest input text of the two concurrent calls
MaxPairLen == 2
\* largest integer passed directly to digital_root / prime_factor_signature
MaxN == 500
\* single-character texts cover every code point 0..MaxCodePoint
MaxCodePoint == 127

----------------------------------------------------------------------------
(* Python dict helpers *)

EmptyDict == [k \in {} |-> 0]

\* dict.get(key, default)
Get(m, k, default) == IF k \in DOMAIN m THEN m[k] ELSE default

\* m[k] = v
Put(m, k, v) == [x \in (DOMAIN m) \cup {k} |-> IF x = k THEN v ELSE m[x]]

----------------------------------------------------------------------------
(* 1. Numerology mappings: initial values of the module globals *)

\* {chr(i+65): ((i % 9) + 1) for i in range(26)}
UppercaseMap == [c \in {i + 65 : i \in 0..25} |-> ((c - 65) % 9) + 1]

\* (i + 1) % 9 for (i % 9) + 1
LowercaseMapNoPlusOne == [c \in {i + 97 : i \in 0..25} |-> (c - 96) % 9]

\* {chr(i+97): ((i % 9) + 1) for i in range(26)}
LowercaseMap == [c \in {i + 97 : i \in 0..25} |-> ((c - 97) % 9) + 1]

\* {**upper, **lower}: later entries override earlier ones
PythagoreanMapInit ==
    [c \in (DOMAIN UppercaseMap) \cup (DOMAIN LowercaseMap) |->
        IF c \in DOMAIN LowercaseMap THEN LowercaseMap[c] ELSE UppercaseMap[c]]

HebrewMapInit ==
       1488 :> 1 @@ 1489 :> 2 @@ 1490 :> 3 @@ 1491 :> 4 @@ 1492 :> 5 @@ 1493 :> 6 @@
       1494 :> 7 @@ 1495 :> 8 @@ 1496 :> 9 @@ 1497 :> 10 @@ 1499 :> 20 @@ 1500 :> 30 @@
       1502 :> 40 @@ 1504 :> 50 @@ 1505 :> 60 @@ 1506 :> 70 @@ 1508 :> 80 @@ 1510 :> 90 @@
       1511 :> 100 @@ 1512 :> 200 @@ 1513 :> 300 @@ 1514 :> 400

GreekMapInit ==
       945 :> 1 @@ 946 :> 2 @@ 947 :> 3 @@ 948 :> 4 @@ 949 :> 5 @@ 987 :> 6 @@
       950 :> 7 @@ 951 :> 8 @@ 952 :> 9 @@ 953 :> 10 @@ 954 :> 20 @@ 955 :> 30 @@
       956 :> 40 @@ 957 :> 50 @@ 958 :> 60 @@ 959 :> 70 @@ 960 :> 80 @@ 985 :> 90 @@
       961 :> 100 @@ 963 :> 200 @@ 964 :> 300 @@ 965 :> 400 @@ 966 :> 500 @@ 967 :> 600 @@
       968 :> 700 @@ 969 :> 800

GlyphRegistryInit ==
    << [id |-> "G:KZ-023", char |-> <<991>>, name |-> "Greek Koppa variant",
        origin |-> "Ancient Greek",
        morphology |-> [strokes |-> 3, symmetry |-> "none"],
        notes |-> "Used in numeric contexts as 90 in isopsephy"],
       [id |-> "R:FE-001", char |-> <<5792>>, name |-> "Fehu",
        origin |-> "Elder Futhark",
        morphology |-> [strokes |-> 3, symmetry |-> "vertical"],
        notes |-> "Rune for cattle, wealth"] >>

----------------------------------------------------------------------------
(* 2. Helpers *)

\* unicodedata.combining(c): the canonical combining class of a code point.
\* 769 COMBINING ACUTE ACCENT, 807 COMBINING CEDILLA, 1463 HEBREW POINT PATAH.
combining(c) ==
    CASE c = 769 -> 230
      [] c = 807 -> 202
      [] c = 1463 -> 17
      [] OTHER -> 0

\* The full compatibility decomposition of one code point:
\*   233 e-acute -> e, acute      231 c-cedilla -> c, cedilla
\*   940 alpha-tonos -> alpha, acute
\*   64302 alef-patah -> alef, patah
\*   64257 ligature fi -> f, i    8544 roman numeral one -> I
\* Every other modelled code point decomposes to itself.
Decompose(c) ==
    CASE c = 233 -> <<101, 769>>
      [] c = 231 -> <<99, 807>>
      [] c = 940 -> <<945, 769>>
      [] c = 64302 -> <<1488, 1463>>
      [] c = 64257 -> <<102, 105>>
      [] c = 8544 -> <<73>>
      [] OTHER -> <<c>>

RECURSIVE DecomposeAll(_)
DecomposeAll(s) ==
    IF s = <<>> THEN <<>> ELSE Decompose(Head(s)) \o DecomposeAll(Tail(s))

\* Canonical ordering: adjacent marks with combining classes out of order
\* (both nonzero) are exchanged until none is left.
RECURSIVE CanonicalOrder(_)
CanonicalOrder(s) ==
    LET bad == {i \in 1..(Len(s) - 1) :
                    /\ combining(s[i + 1]) # 0
                    /\ combining(s[i]) > combining(s[i + 1])}
    IN  IF bad = {} THEN s
        ELSE LET i == CHOOSE x \in bad : \A y \in bad : x <= y
             IN  CanonicalOrder([s EXCEPT ![i] = s[i + 1], ![i + 1] = s[i]])

\* no decomposition at all (a composing form such as NFC on composed input)
NoDecomposition(s) == s

\* unicodedata.normalize('NFKD', text)
NFKD(s) == CanonicalOrder(DecomposeAll(s))

\* not unicodedata.combining(c)
IsBase(c) == combining(c) = 0

\* line 31 without its filter
KeepAll(s) == s

\* line 31: "".join([c for c in nfkd_form if not unicodedata.combining(c)])
StripCombining(s) == SelectSeq(s, IsBase)

\* normalize_text(text), the whole function
normalize_text(s) == StripCombining(NFKD(s))

\* str(n) for n >= 0: the decimal digits as code points '0'..'9'
RECURSIVE Str(_)
Str(k) == IF k < 10 THEN <<48 + k>> ELSE Str(k \div 10) \o <<48 + (k % 10)>>

\* ord(d) for int(d)
IntOfDigitOrd(c) == c

\* int(d) for a digit character
IntOfDigit(c) == c - 48

\* sum(...) over a sequence of integers, left to right
RECURSIVE SumSeq(_)
SumSeq(s) == IF s = <<>> THEN 0 ELSE Head(s) + SumSeq(Tail(s))

\* sum(int(d) for d in str(n))
DigitSum(k) == SumSeq([i \in 1..Len(Str(k)) |-> IntOfDigit(Str(k)[i])])

\* the loop condition as n > 10
DrContinueOffByOne(k) == k > 10

\* line 35: the loop condition, n > 9
DrContinue(k) == k > 9

\* digital_root(n), the whole loop
RECURSIVE digital_root(_)
digital_root(k) == IF DrContinue(k) THEN digital_root(DigitSum(k)) ELSE k

\* m.get(ch, 1) for m.get(ch, 0)
MapSumDefaultOne(m, s) == SumSeq([i \in 1..Len(s) |-> Get(m, s[i], 1)])

\* the sum taken over text_norm[1:]
MapSumSkipFirst(m, s) ==
    IF s = <<>> THEN 0
    ELSE SumSeq([i \in 1..(Len(s) - 1) |-> Get(m, s[i + 1], 0)])

\* sum(m.get(ch, 0) for ch in text_norm)
MapSum(m, s) == SumSeq([i \in 1..Len(s) |-> Get(m, s[i], 0)])

\* One statement of prime_factor_signature acts on its frame
\* [factors, d, temp_n] and moves to the next statement (at).
PfsEnter(k) == [factors |-> EmptyDict, d |-> 2, temp_n |-> k, at |-> "pfs46"]

\* line 46: while temp_n > 1
PfsOuterTest(st) ==
    IF st.temp_n > 1 THEN [st EXCEPT !.at = "pfs47"]
    ELSE [st EXCEPT !.at = "pfs54"]

\* lines 47-49: while temp_n % d == 0: factors[d] += 1; temp_n //= d
PfsInnerLoop(st) ==
    IF st.temp_n % st.d = 0
    THEN [st EXCEPT !.factors = Put(st.factors, st.d, Get(st.factors, st.d, 0) + 1),
                    !.temp_n = st.temp_n \div st.d]
    ELSE [st EXCEPT !.at = "pfs50"]

\* line 51 with >= for >
LargePrimeLeftGe(dd, t) == dd * dd >= t /\ t > 1

\* the early-exit test of line 51
LargePrimeLeft(dd, t) == dd * dd > t /\ t > 1

\* lines 50-53: d += 1; if d*d > temp_n and temp_n > 1: factors[temp_n] = 1; break
PfsAdvance(st) ==
    LET d1 == st.d + 1
    IN  IF LargePrimeLeft(d1, st.temp_n)
        THEN [st EXCEPT !.d = d1, !.factors = Put(st.factors, st.temp_n, 1),
                        !.at = "pfs54"]
        ELSE [st EXCEPT !.d = d1, !.at = "pfs46"]

PfsStep(st) ==
    CASE st.at = "pfs46" -> PfsOuterTest(st)
      [] st.at = "pfs47" -> PfsInnerLoop(st)
      [] st.at = "pfs50" -> PfsAdvance(st)

RECURSIVE PfsRun(_)
PfsRun(st) == IF st.at = "pfs54" THEN st.factors ELSE PfsRun(PfsStep(st))

\* lines 41-42: if n == 0: return {0:1}; if n == 1: return {1:1}
IsSpecialCase(k) == k = 0 \/ k = 1

SpecialCase(k) == IF k = 0 THEN 0 :> 1 ELSE 1 :> 1

\* prime_factor_signature(n), the whole function
prime_factor_signature(k) ==
    IF IsSpecialCase(k) THEN SpecialCase(k) ELSE PfsRun(PfsEnter(k))

----------------------------------------------------------------------------
(* 3. Core function *)

\* line 64: root = digital_root(pyth) if pyth > 0 else 0
RootOf(p) == IF p > 0 THEN digital_root(p) ELSE 0

\* lines 66-73: the returned dict
MakeVector(t, p, h, g, r, sig) ==
    [text_input |-> t, pythagorean_sum |-> p, hebrew_gematria |-> h,
     greek_isopsephy |-> g, digital_root |-> r, prime_signature |-> sig]

\* numerology_vector(text) evaluated against maps pm, hm, gm
VectorWith(pm, hm, gm, t) ==
    LET tn == normalize_text(t)
        p == MapSum(pm, tn)
    IN  MakeVector(t, p, MapSum(hm, tn), MapSum(gm, tn), RootOf(p),
                   prime_factor_signature(p))

----------------------------------------------------------------------------
(* Inputs *)

\* all sequences over S of length at most k
SeqsUpTo(S, k) == UNION {[1..m -> S] : m \in 0..k}

\* Code points the Unicode tables above are right about: ASCII and the next
\* code point (no decomposition, class 0), the letters of the three maps,
\* the marks, the composed forms, and a few characters outside every map
\* (913 and 937 capital alpha and omega, 991 koppa, 5792 fehu).
ModelledCodePoints ==
    (0..128) \cup DOMAIN HebrewMapInit \cup DOMAIN GreekMapInit
    \cup {769, 807, 1463, 233, 231, 940, 64302, 64257, 8544, 913, 937, 991, 5792}

\* A, I, e, space, e-acute, acute, cedilla, alpha, alef, alef-patah,
\* ligature fi, roman numeral one, capital omega
Alphabet == {65, 73, 101, 32, 233, 769, 807, 945, 1488, 64302, 64257,
             8544, 937}

Texts == SeqsUpTo(Alphabet, MaxLen) \cup {<<c>> : c \in 0..MaxCodePoint}

----------------------------------------------------------------------------
(* Initial values *)

GlobalsInit ==
    /\ pythagorean_map = PythagoreanMapInit
    /\ hebrew_map = HebrewMapInit
    /\ greek_map = GreekMapInit
    /\ glyph_registry = GlyphRegistryInit

\* a name that holds no value yet
Unbound == [kind |-> "unbound"]

\* the value a finished call handed back to its caller
Returned(v) == [value |-> v]

\* locals not yet bound
LocalsInit ==
    /\ nfkd_form = <<>> /\ text_norm = <<>>
    /\ pyth = 0 /\ heb = 0 /\ grk = 0 /\ root = 0 /\ prime_sig = EmptyDict
    /\ n = 0 /\ factors = EmptyDict /\ d = 0 /\ temp_n = 0 /\ ret = Unbound

SeqOff ==
    /\ fn = "none" /\ arg = 0 /\ pc = "off" /\ text = <<>> /\ LocalsInit

ConcOff == calls = <<>>

AppOff ==
    /\ module_present = TRUE /\ NUMEROLOGY_AVAILABLE = FALSE /\ ne = "unbound"
    /\ app_pc = "off" /\ page = "" /\ user_input = <<>>
    /\ sidecar = Unbound /\ shown = <<>> /\ footer_num_val = Unbound
    /\ raised = "none"

----------------------------------------------------------------------------
(* A sequential call into numerology_engine, one statement per step *)

\* The caller picks one of the module's functions and its argument.
Init ==
    /\ GlobalsInit /\ ConcOff /\ AppOff /\ LocalsInit
    /\ \/ /\ fn = "numerology_vector" /\ pc = "nv60"
          /\ text \in Texts /\ arg = 0
       \/ /\ fn = "normalize_text" /\ pc = "nt30"
          /\ text \in Texts /\ arg = 0
       \/ /\ fn = "digital_root" /\ pc = "call"
          /\ text = <<>> /\ arg \in 0..MaxN
       \/ /\ fn = "prime_factor_signature" /\ pc = "call"
          /\ text = <<>> /\ arg \in 0..MaxN

\* the argument of the running digital_root / prime_factor_signature call
CallArg == IF fn = "numerology_vector" THEN pyth ELSE arg

\* line 60: text_norm = normalize_text(text), the call
NvNormalize ==
    /\ pc = "nv60"
    /\ pc' = "nt30"
    /\ UNCHANGED <<fn, arg, text, nfkd_form, text_norm, pyth, heb, grk, root,
                   prime_sig, n, factors, d, temp_n, ret>>
    /\ UNCHANGED outside_call

\* line 30: nfkd_form = unicodedata.normalize('NFKD', text)
NtDecompose ==
    /\ pc = "nt30"
    /\ nfkd_form' = NFKD(text)
    /\ pc' = "nt31"
    /\ UNCHANGED <<fn, arg, text, text_norm, pyth, heb, grk, root,
                   prime_sig, n, factors, d, temp_n, ret>>
    /\ UNCHANGED outside_call

\* line 31: return the characters that are not combining
NtStrip ==
    /\ pc = "nt31"
    /\ IF fn = "numerology_vector"
       THEN pc' = "nv61" /\ text_norm' = StripCombining(nfkd_form)
            /\ UNCHANGED ret
       ELSE pc' = "done" /\ ret' = Returned(StripCombining(nfkd_form))
            /\ UNCHANGED text_norm
    /\ UNCHANGED <<fn, arg, text, nfkd_form, pyth, heb, grk, root,
                   prime_sig, n, factors, d, temp_n>>
    /\ UNCHANGED outside_call

\* line 61: pyth = sum(pythagorean_map.get(ch, 0) for ch in text_norm)
NvPyth ==
    /\ pc = "nv61"
    /\ pyth' = MapSum(pythagorean_map, text_norm)
    /\ pc' = "nv62"
    /\ UNCHANGED <<fn, arg, text, nfkd_form, text_norm, heb, grk, root,
                   prime_sig, n, factors, d, temp_n, ret>>
    /\ UNCHANGED outside_call

\* line 62: heb = sum(hebrew_map.get(ch, 0) for ch in text_norm)
NvHeb ==
    /\ pc = "nv62"
    /\ heb' = MapSum(hebrew_map, text_norm)
    /\ pc' = "nv63"
    /\ UNCHANGED <<fn, arg, text, nfkd_form, text_norm, pyth, grk, root,
                   prime_sig, n, factors, d, temp_n, ret>>
    /\ UNCHANGED outside_call

\* line 63: grk = sum(greek_map.get(ch, 0) for ch in text_norm)
NvGrk ==
    /\ pc = "nv63"
    /\ grk' = MapSum(greek_map, text_norm)
    /\ pc' = "nv64"
    /\ UNCHANGED <<fn, arg, text, nfkd_form, text_norm, pyth, heb, root,
                   prime_sig, n, factors, d, temp_n, ret>>
    /\ UNCHANGED outside_call

\* line 64: root = digital_root(pyth) if pyth > 0 else 0
NvRoot ==
    /\ pc = "nv64"
    /\ IF pyth > 0
       THEN n' = pyth /\ pc' = "dr35" /\ UNCHANGED root
       ELSE root' = 0 /\ pc' = "nv65" /\ UNCHANGED n
    /\ UNCHANGED <<fn, arg, text, nfkd_form, text_norm, pyth, heb, grk,
                   prime_sig, factors, d, temp_n, ret>>
    /\ UNCHANGED outside_call

\* lines 35-36: while n > 9: n = sum(int(d) for d in str(n))
DrLoop ==
    /\ pc = "dr35"
    /\ DrContinue(n)
    /\ n' = DigitSum(n)
    /\ UNCHANGED <<fn, arg, pc, text, nfkd_form, text_norm, pyth, heb, grk, root,
                   prime_sig, factors, d, temp_n, ret>>
    /\ UNCHANGED outside_call

\* line 35, the loop condition fails
DrExit ==
    /\ pc = "dr35"
    /\ ~DrContinue(n)
    /\ pc' = "dr37"
    /\ UNCHANGED <<fn, arg, text, nfkd_form, text_norm, pyth, heb, grk, root,
                   prime_sig, n, factors, d, temp_n, ret>>
    /\ UNCHANGED outside_call

\* line 37: return n
DrReturn ==
    /\ pc = "dr37"
    /\ IF fn = "numerology_vector"
       THEN pc' = "nv65" /\ root' = n /\ UNCHANGED ret
       ELSE pc' = "done" /\ ret' = Returned(n) /\ UNCHANGED root
    /\ UNCHANGED <<fn, arg, text, nfkd_form, text_norm, pyth, heb, grk,
                   prime_sig, n, factors, d, temp_n>>
    /\ UNCHANGED outside_call

\* A direct call of digital_root(n) or prime_factor_signature(n) binds the
\* parameter n.
CallInt ==
    /\ pc = "call"
    /\ n' = arg
    /\ pc' = IF fn = "digital_root" THEN "dr35" ELSE "pfs41"
    /\ UNCHANGED <<fn, arg, text, nfkd_form, text_norm, pyth, heb, grk, root,
                   prime_sig, factors, d, temp_n, ret>>
    /\ UNCHANGED outside_call

\* line 65: prime_sig = prime_factor_signature(pyth), the call
NvPrime ==
    /\ pc = "nv65"
    /\ n' = pyth
    /\ pc' = "pfs41"
    /\ UNCHANGED <<fn, arg, text, nfkd_form, text_norm, pyth, heb, grk, root,
                   prime_sig, factors, d, temp_n, ret>>
    /\ UNCHANGED outside_call

\* prime_factor_signature returns value to its caller
PfsReturnTo(value) ==
    IF fn = "numerology_vector"
    THEN pc' = "nv66" /\ prime_sig' = value /\ UNCHANGED ret
    ELSE pc' = "done" /\ ret' = Returned(value) /\ UNCHANGED prime_sig

\* the frame of prime_factor_signature held in the variables
Frame == [factors |-> factors, d |-> d, temp_n |-> temp_n, at |-> pc]

SetFrame(st) ==
    /\ factors' = st.factors /\ d' = st.d /\ temp_n' = st.temp_n /\ pc' = st.at

\* lines 41-45: the two special cases, else factors = {}; d = 2; temp_n = n
PfsBegin ==
    /\ pc = "pfs41"
    /\ IF IsSpecialCase(n)
       THEN PfsReturnTo(SpecialCase(n)) /\ UNCHANGED <<factors, d, temp_n>>
       ELSE SetFrame(PfsEnter(n)) /\ UNCHANGED <<prime_sig, ret>>
    /\ UNCHANGED <<fn, arg, text, nfkd_form, text_norm, pyth, heb, grk, root, n>>
    /\ UNCHANGED outside_call

\* line 46
PfsWhile ==
    /\ pc = "pfs46"
    /\ SetFrame(PfsOuterTest(Frame))
    /\ UNCHANGED <<fn, arg, text, nfkd_form, text_norm, pyth, heb, grk, root,
                   prime_sig, n, ret>>
    /\ UNCHANGED outside_call

\* lines 47-49
PfsDivide ==
    /\ pc = "pfs47"
    /\ SetFrame(PfsInnerLoop(Frame))
    /\ UNCHANGED <<fn, arg, text, nfkd_form, text_norm, pyth, heb, grk, root,
                   prime_sig, n, ret>>
    /\ UNCHANGED outside_call

\* lines 50-53
PfsNext ==
    /\ pc = "pfs50"
    /\ SetFrame(PfsAdvance(Frame))
    /\ UNCHANGED <<fn, arg, text, nfkd_form, text_norm, pyth, heb, grk, root,
                   prime_sig, n, ret>>
    /\ UNCHANGED outside_call

\* line 54: return factors
PfsReturn ==
    /\ pc = "pfs54"
    /\ PfsReturnTo(factors)
    /\ UNCHANGED <<fn, arg, text, nfkd_form, text_norm, pyth, heb, grk, root,
                   n, factors, d, temp_n>>
    /\ UNCHANGED outside_call

\* lines 66-73: return the vector
NvReturn ==
    /\ pc = "nv66"
    /\ pc' = "done"
    /\ ret' = Returned(MakeVector(text, pyth, heb, grk, root, prime_sig))
    /\ UNCHANGED <<fn, arg, text, nfkd_form, text_norm, pyth, heb, grk, root,
                   prime_sig, n, factors, d, temp_n>>
    /\ UNCHANGED outside_call

Next ==
    \/ NvNormalize \/ NtDecompose \/ NtStrip
    \/ NvPyth \/ NvHeb \/ NvGrk \/ NvRoot
    \/ CallInt \/ DrLoop \/ DrExit \/ DrReturn
    \/ NvPrime \/ PfsBegin \/ PfsWhile \/ PfsDivide \/ PfsNext \/ PfsReturn
    \/ NvReturn

Spec == Init /\ [][Next]_vars

\* The interpreter keeps executing the running call: every enabled step is
\* eventually taken.
FairSpec == Spec /\ WF_vars(Next)

----------------------------------------------------------------------------
(* Properties of a sequential call *)

IsPrime(k) == k >= 2 /\ \A q \in 2..(k - 1) : k % q # 0

RECURSIVE Power(_, _)
Power(b, e) == IF e = 0 THEN 1 ELSE b * Power(b, e - 1)

\* the product of key^multiplicity over the entries of a dict
RECURSIVE DictProduct(_)
DictProduct(f) ==
    IF DOMAIN f = {} THEN 1
    ELSE LET k == CHOOSE x \in DOMAIN f : TRUE
         IN  Power(k, f[k]) * DictProduct([x \in (DOMAIN f) \ {k} |-> f[x]])

IsFactorizationOf(f, k) ==
    /\ \A q \in DOMAIN f : IsPrime(q) /\ f[q] \in Nat /\ f[q] >= 1
    /\ DictProduct(f) = k

SignatureRight(f, k) ==
    /\ k = 0 => f = (0 :> 1)
    /\ k = 1 => f = (1 :> 1)
    /\ k >= 2 => IsFactorizationOf(f, k)

\* C1: prime_factor_signature(n) is {0:1} for 0, {1:1} for 1, and for n >= 2
\* a mapping whose keys are primes, whose multiplicities are positive and
\* whose product of key^multiplicity is n; both when called directly and
\* when numerology_vector calls it on the Latin sum.
C1_PrimeSignature ==
    /\ (fn = "prime_factor_signature" /\ pc = "done") => SignatureRight(ret.value, arg)
    /\ (fn = "numerology_vector" /\ pc = "nv66") => SignatureRight(prime_sig, pyth)

\* 90 = 2 * 3^2 * 5: a repeated factor, and a last prime recorded by the
\* early exit of line 51
C1_Witness ==
    /\ fn = "prime_factor_signature" /\ pc = "done" /\ arg = 90
    /\ ret.value = (2 :> 1 @@ 3 :> 2 @@ 5 :> 1)

\* the sum of the base-10 digits, by arithmetic
RECURSIVE RefDigitSum(_)
RefDigitSum(k) == IF k = 0 THEN 0 ELSE (k % 10) + RefDigitSum(k \div 10)

\* repeated digit sums while the number exceeds 9
RECURSIVE RefRoot(_)
RefRoot(k) == IF k > 9 THEN RefRoot(RefDigitSum(k)) ELSE k

RootRight(r, k) ==
    /\ r \in 0..9
    /\ k <= 9 => r = k
    /\ r = RefRoot(k)

\* C3: digital_root(n) is the value reached by repeated digit sums while
\* n > 9, lies in 0..9, is n itself for n <= 9, and the digital_root field
\* of numerology_vector is 0 whenever the Latin sum is 0.
C3_DigitalRoot ==
    /\ (fn = "digital_root" /\ pc = "done") => RootRight(ret.value, arg)
    /\ (fn = "numerology_vector" /\ pc \in {"nv65", "pfs41", "nv66"}) =>
          /\ RootRight(root, pyth)
          /\ pyth = 0 => root = 0
    /\ (fn = "numerology_vector" /\ pc = "done") =>
          /\ RootRight(ret.value.digital_root, ret.value.pythagorean_sum)
          /\ ret.value.pythagorean_sum = 0 => ret.value.digital_root = 0

\* 38 -> 11 -> 2
C3_Witness == fn = "digital_root" /\ pc = "done" /\ arg = 38 /\ ret.value = 2

\* C9: every iteration of digital_root's loop is entered with n > 9 and
\* replaces n by a strictly smaller non-negative integer, and a call that
\* is at the loop eventually reaches the return statement.
C9_DigitalRootTerminates ==
    /\ [][DrLoop => (n > 9 /\ n' >= 0 /\ n' < n)]_vars
    /\ (pc = "dr35") ~> (pc = "dr37")

\* 199 -> 19 -> 10 -> 1: the loop after its first iteration
C9_Witness == fn = "digital_root" /\ arg = 199 /\ pc = "dr35" /\ n = 19

\* how many code points of c's decomposition are not combining
NonCombiningCount(c) == Len(SelectSeq(Decompose(c), IsBase))

\* C4 as stated: normalize_text(s) is never longer than s.
C4_NeverLonger ==
    (fn = "normalize_text" /\ pc = "done") => Len(ret.value) <= Len(text)

\* C4 amended: the length of normalize_text(s) is the number of non-combining
\* code points in the decompositions of the characters of s, so it does not
\* exceed the length of s when every character of s decomposes to at most
\* one non-combining code point.
C4_LengthOfNormalized ==
    (fn = "normalize_text" /\ pc = "done") =>
        /\ Len(ret.value) = SumSeq([i \in 1..Len(text) |-> NonCombiningCount(text[i])])
        /\ (\A i \in 1..Len(text) : NonCombiningCount(text[i]) <= 1)
              => Len(ret.value) <= Len(text)

\* e-acute followed by an acute accent: two code points in, one out
C4_Witness ==
    /\ fn = "normalize_text" /\ pc = "done"
    /\ text = <<233, 769>> /\ ret.value = <<101>>

InSomeMap(c) ==
    c \in (DOMAIN pythagorean_map) \cup (DOMAIN hebrew_map) \cup (DOMAIN greek_map)

\* C6: for the empty string and for a string none of whose normalized
\* characters is in a map, numerology_vector returns three sums of 0, a
\* digital root of 0 and the signature {0:1}; the three sums are
\* non-negative integers for every string.
C6_UnmappedScoresZero ==
    (fn = "numerology_vector" /\ pc = "done") =>
        /\ ret.value.pythagorean_sum \in Nat
        /\ ret.value.hebrew_gematria \in Nat
        /\ ret.value.greek_isopsephy \in Nat
        /\ (\A i \in 1..Len(text_norm) : ~InSomeMap(text_norm[i])) =>
              /\ ret.value.pythagorean_sum = 0
              /\ ret.value.hebrew_gematria = 0
              /\ ret.value.greek_isopsephy = 0
              /\ ret.value.digital_root = 0
              /\ ret.value.prime_signature = (0 :> 1)

\* a space and capital omega: a non-empty string with no mapped character
C6_Witness ==
    /\ fn = "numerology_vector" /\ pc = "done" /\ text = <<32, 937>>
    /\ ret.value.pythagorean_sum = 0 /\ ret.value.prime_signature = (0 :> 1)

\* the weight the Latin map is to give a code point
LatinWeight(c) ==
    IF c \in 65..90 THEN ((c - 65) % 9) + 1
    ELSE IF c \in 97..122 THEN ((c - 97) % 9) + 1
    ELSE 0

\* C7: the Latin map gives the letter at alphabet position p the weight
\* (p mod 9) + 1 in both cases (A/a = 1, I/i = 9, J/j = 1, Z/z = 8), holds
\* nothing but the 52 letters, and the lookup of line 61 counts every other
\* character as 0.
C7_LatinWeights ==
    /\ DOMAIN pythagorean_map = (65..90) \cup (97..122)
    /\ \A p \in 0..25 :
          /\ pythagorean_map[65 + p] = (p % 9) + 1
          /\ pythagorean_map[97 + p] = (p % 9) + 1
    /\ pythagorean_map[65] = 1 /\ pythagorean_map[97] = 1
    /\ pythagorean_map[73] = 9 /\ pythagorean_map[105] = 9
    /\ pythagorean_map[74] = 1 /\ pythagorean_map[106] = 1
    /\ pythagorean_map[90] = 8 /\ pythagorean_map[122] = 8
    /\ (fn = "numerology_vector" /\ pc \in {"nv62", "nv63", "nv64", "done"}) =>
          pyth = SumSeq([i \in 1..Len(text_norm) |-> LatinWeight(text_norm[i])])

\* the text "z" scored 8
C7_Witness ==
    /\ fn = "numerology_vector" /\ pc = "done" /\ text = <<122>>
    /\ ret.value.pythagorean_sum = 8

----------------------------------------------------------------------------
(* Two concurrent calls of numerology_vector *)

Threads == {"t1", "t2"}

\* dict.setdefault(ch, 0) for dict.get(ch, 0): a missing key is inserted
AfterSetdefault(m, s) ==
    [c \in (DOMAIN m) \cup {s[i] : i \in 1..Len(s)} |-> Get(m, c, 0)]

\* The maps after the lookups of one generator expression: dict.get reads
\* and never inserts.
AfterLookups(m, s) == m

\* the frame of a call that has not run yet
NewCall(t) ==
    [pc |-> "nv60", text |-> t, text_norm |-> <<>>, pyth |-> 0, heb |-> 0,
     grk |-> 0, root |-> 0, prime_sig |-> EmptyDict, ret |-> Unbound]

\* line 60
CNormalize(t) ==
    /\ calls[t].pc = "nv60"
    /\ calls' = [calls EXCEPT ![t].text_norm = normalize_text(calls[t].text),
                              ![t].pc = "nv61"]
    /\ UNCHANGED <<engine_globals, seq_vars, app_vars>>

\* line 61
CPyth(t) ==
    /\ calls[t].pc = "nv61"
    /\ calls' = [calls EXCEPT
                    ![t].pyth = MapSum(pythagorean_map, calls[t].text_norm),
                    ![t].pc = "nv62"]
    /\ pythagorean_map' = AfterLookups(pythagorean_map, calls[t].text_norm)
    /\ UNCHANGED <<hebrew_map, greek_map, glyph_registry, seq_vars, app_vars>>

\* line 62
CHeb(t) ==
    /\ calls[t].pc = "nv62"
    /\ calls' = [calls EXCEPT
                    ![t].heb = MapSum(hebrew_map, calls[t].text_norm),
                    ![t].pc = "nv63"]
    /\ hebrew_map' = AfterLookups(hebrew_map, calls[t].text_norm)
    /\ UNCHANGED <<pythagorean_map, greek_map, glyph_registry, seq_vars, app_vars>>

\* line 63
CGrk(t) ==
    /\ calls[t].pc = "nv63"
    /\ calls' = [calls EXCEPT
                    ![t].grk = MapSum(greek_map, calls[t].text_norm),
                    ![t].pc = "nv64"]
    /\ greek_map' = AfterLookups(greek_map, calls[t].text_norm)
    /\ UNCHANGED <<pythagorean_map, hebrew_map, glyph_registry, seq_vars, app_vars>>

\* line 64
CRoot(t) ==
    /\ calls[t].pc = "nv64"
    /\ calls' = [calls EXCEPT ![t].root = RootOf(calls[t].pyth),
                              ![t].pc = "nv65"]
    /\ UNCHANGED <<engine_globals, seq_vars, app_vars>>

\* line 65
CPrime(t) ==
    /\ calls[t].pc = "nv65"
    /\ calls' = [calls EXCEPT
                    ![t].prime_sig = prime_factor_signature(calls[t].pyth),
                    ![t].pc = "nv66"]
    /\ UNCHANGED <<engine_globals, seq_vars, app_vars>>

\* lines 66-73
CReturn(t) ==
    /\ calls[t].pc = "nv66"
    /\ calls' = [calls EXCEPT
                    ![t].ret = MakeVector(calls[t].text, calls[t].pyth,
                                          calls[t].heb, calls[t].grk,
                                          calls[t].root, calls[t].prime_sig),
                    ![t].pc = "done"]
    /\ UNCHANGED <<engine_globals, seq_vars, app_vars>>

\* A, e, alpha, alef, e-acute, acute, ligature fi
PairAlphabet == {65, 101, 945, 1488, 233, 769, 64257}

PairTexts == SeqsUpTo(PairAlphabet, MaxPairLen)

Marks == {769, 807, 1463}

ComposedForms == {233, 231, 940, 64302}

\* the composed forms that decompose to the letter c followed by marks only
AccentedForms(c) ==
    {a \in ComposedForms :
        /\ Head(Decompose(a)) = c
        /\ \A i \in 2..Len(Decompose(a)) : ~IsBase(Decompose(a)[i])}

\* s with the mark m inserted after its first i characters
InsertAt(s, i, m) == SubSeq(s, 1, i) \o <<m>> \o SubSeq(s, i + 1, Len(s))

\* s with one diacritic added: a mark inserted anywhere, or a letter
\* replaced by an accented form of it
Decorations(s) ==
    {InsertAt(s, i, m) : i \in 0..Len(s), m \in Marks}
    \cup UNION {{[s EXCEPT ![i] = a] : a \in AccentedForms(s[i])} : i \in 1..Len(s)}

\* the rearrangements of s
Rearrangements(s) ==
    {[i \in 1..Len(s) |-> s[f[i]]] :
        f \in {g \in [1..Len(s) -> 1..Len(s)] :
                  \A i, j \in 1..Len(s) : g[i] = g[j] => i = j}}

\* The second call scores the same text, a rearrangement of it, or a
\* decorated form of it.
PairedWith(s) == {s} \cup Rearrangements(s) \cup Decorations(s)

ConcInit ==
    /\ GlobalsInit /\ SeqOff /\ AppOff
    /\ \E s \in PairTexts : \E u \in PairedWith(s) :
          calls = [t \in Threads |-> IF t = "t1" THEN NewCall(s) ELSE NewCall(u)]

ConcNext ==
    \E t \in Threads :
        \/ CNormalize(t) \/ CPyth(t) \/ CHeb(t) \/ CGrk(t)
        \/ CRoot(t) \/ CPrime(t) \/ CReturn(t)

SpecConc == ConcInit /\ [][ConcNext]_vars

----------------------------------------------------------------------------
(* Properties of two concurrent calls *)

BothDone == \A t \in Threads : calls[t].pc = "done"

Count(s, c) == Cardinality({i \in 1..Len(s) : s[i] = c})

\* b holds the characters of a, each as often, in some order
IsRearrangement(a, b) ==
    /\ Len(a) = Len(b)
    /\ \A i \in 1..Len(a) : Count(a, a[i]) = Count(b, a[i])

\* C2: a text and any permutation of its characters get the same
\* pythagorean_sum, hebrew_gematria, greek_isopsephy, digital_root and
\* prime_signature.
C2_PermutationInvariant ==
    (BothDone /\ IsRearrangement(calls["t1"].text, calls["t2"].text)) =>
        /\ calls["t1"].ret.pythagorean_sum = calls["t2"].ret.pythagorean_sum
        /\ calls["t1"].ret.hebrew_gematria = calls["t2"].ret.hebrew_gematria
        /\ calls["t1"].ret.greek_isopsephy = calls["t2"].ret.greek_isopsephy
        /\ calls["t1"].ret.digital_root = calls["t2"].ret.digital_root
        /\ calls["t1"].ret.prime_signature = calls["t2"].ret.prime_signature

\* "A" + e-acute against e-acute + "A": both score 1 + 5
C2_Witness ==
    /\ BothDone
    /\ calls["t1"].text = <<65, 233>> /\ calls["t2"].text = <<233, 65>>
    /\ calls["t1"].ret.pythagorean_sum = 6
    /\ calls["t2"].ret.pythagorean_sum = 6

\* C5: replacing a letter by an accented form that decomposes to the letter
\* plus combining marks, or inserting a combining mark anywhere, leaves the
\* three sums unchanged.
C5_DiacriticsDoNotCount ==
    (BothDone /\ calls["t2"].text \in Decorations(calls["t1"].text)) =>
        /\ calls["t1"].ret.pythagorean_sum = calls["t2"].ret.pythagorean_sum
        /\ calls["t1"].ret.hebrew_gematria = calls["t2"].ret.hebrew_gematria
        /\ calls["t1"].ret.greek_isopsephy = calls["t2"].ret.greek_isopsephy

\* "Ae" against "A" + e-acute
C5_Witness ==
    /\ BothDone
    /\ calls["t1"].text = <<65, 101>> /\ calls["t2"].text = <<65, 233>>
    /\ calls["t1"].ret.pythagorean_sum = 6
    /\ calls["t2"].ret.pythagorean_sum = 6

\* C8: under every interleaving of the two calls the three maps and the
\* glyph registry keep their initial values, a finished call has returned
\* what a call running alone returns for its text, and two finished calls
\* on the same text have returned identical vectors.
C8_StatelessDeterministic ==
    /\ pythagorean_map = PythagoreanMapInit
    /\ hebrew_map = HebrewMapInit
    /\ greek_map = GreekMapInit
    /\ glyph_registry = GlyphRegistryInit
    /\ \A t \in Threads :
          calls[t].pc = "done" =>
              calls[t].ret = VectorWith(PythagoreanMapInit, HebrewMapInit,
                                        GreekMapInit, calls[t].text)
    /\ (BothDone /\ calls["t1"].text = calls["t2"].text) =>
          calls["t1"].ret = calls["t2"].ret

\* "A" + alef scored by both calls
C8_Witness ==
    /\ BothDone
    /\ calls["t1"].text = <<65, 1488>> /\ calls["t2"].text = <<65, 1488>>
    /\ calls["t1"].ret = calls["t2"].ret
    /\ calls["t1"].ret.hebrew_gematria = 1

----------------------------------------------------------------------------
(* The dashboard, app.py *)

\* Python values the footer expression ranges over
PyNone == [kind |-> "NoneType"]
PyInt(v) == [kind |-> "int", int |-> v]
PyStr(v) == [kind |-> "str", str |-> v]

\* truth value of a Python object
Truthy(v) ==
    CASE v.kind = "NoneType" -> FALSE
      [] v.kind = "int" -> v.int # 0
      [] v.kind = "str" -> v.str # ""

\* a or b
PyOr(a, b) == IF Truthy(a) THEN a ELSE b

\* dict.get(key) on a vector, whose values under these keys are integers
PyGet(vec, key) == IF key \in DOMAIN vec THEN PyInt(vec[key]) ELSE PyNone

\* something a streamlit call put on the page
Shown(widget, value) == [widget |-> widget, value |-> value]

\* line 34: what DummyNumerologyEngine.numerology_vector returns
DummyVector == [error |-> "Engine not found", pyth |-> 0]

\* the attributes of the object bound to ne
NeAttributes(e) ==
    IF e = "numerology_engine"
    THEN {"pythagorean_map", "hebrew_map", "greek_map", "normalize_text",
          "digital_root", "prime_factor_signature", "numerology_vector",
          "glyph_registry"}
    ELSE {"numerology_vector"}

\* ne.numerology_vector(text)
NeVector(e, t) ==
    IF e = "numerology_engine"
    THEN VectorWith(pythagorean_map, hebrew_map, greek_map, t)
    ELSE DummyVector

\* line 186 with its guard gone
NeverMissing == FALSE

\* line 186: if not NUMEROLOGY_AVAILABLE
EngineMissing == ~NUMEROLOGY_AVAILABLE

\* line 217: nvec.get('pyth') or nvec.get('pythagorean_sum') or "N/A"
FooterValue(nvec) ==
    PyOr(PyOr(PyGet(nvec, "pyth"), PyGet(nvec, "pythagorean_sum")), PyStr("N/A"))

\* line 201: the entries of the navigation selectbox
Pages == {"Command Center", "Cyclical Convergence", "5th-Gen Warfare",
          "Hidden Patterns", "Geo-Esoteric Map", "Resonance Timeline",
          "Sacred Patterns", "Numerology Engine", "Schumann Monitor",
          "Sovereignty Index"}

\* lines 203-208: the pages page_functions dispatches
PageFunctions == {"Command Center", "Cyclical Convergence", "5th-Gen Warfare",
                  "Numerology Engine"}

\* line 199: "Gaia-Net Strategic Intelligence"
SidecarText ==
    <<71, 97, 105, 97, 45, 78, 101, 116, 32, 83, 116, 114, 97, 116, 101, 103,
      105, 99, 32, 73, 110, 116, 101, 108, 108, 105, 103, 101, 110, 99, 101>>

\* line 216: "For the Sovereignty Architects and Civilization Builders"
FooterText ==
    <<70, 111, 114, 32, 116, 104, 101, 32, 83, 111, 118, 101, 114, 101, 105,
      103, 110, 116, 121, 32, 65, 114, 99, 104, 105, 116, 101, 99, 116, 115,
      32, 97, 110, 100, 32, 67, 105, 118, 105, 108, 105, 122, 97, 116, 105,
      111, 110, 32, 66, 117, 105, 108, 100, 101, 114, 115>>

\* line 188: the default of the text area, "In the beginning" + capital
\* alpha and omega
DefaultInput ==
    <<73, 110, 32, 116, 104, 101, 32, 98, 101, 103, 105, 110, 110, 105, 110,
      103, 32, 913, 937>>

\* what the user may leave in the text area
AppInputs == {DefaultInput} \cup PairTexts

AppInit ==
    /\ GlobalsInit /\ SeqOff /\ ConcOff
    /\ module_present \in BOOLEAN
    /\ NUMEROLOGY_AVAILABLE = FALSE /\ ne = "unbound"
    /\ app_pc = "import" /\ page = "" /\ user_input = <<>>
    /\ sidecar = Unbound /\ shown = <<>> /\ footer_num_val = Unbound
    /\ raised = "none"

\* lines 28-35: import numerology_engine, or bind the stand-in
AppImport ==
    /\ app_pc = "import"
    /\ IF module_present
       THEN NUMEROLOGY_AVAILABLE' = TRUE /\ ne' = "numerology_engine"
       ELSE NUMEROLOGY_AVAILABLE' = FALSE /\ ne' = "DummyNumerologyEngine"
    /\ app_pc' = "main199"
    /\ UNCHANGED <<module_present, page, user_input, sidecar, shown,
                   footer_num_val, raised>>
    /\ UNCHANGED <<engine_globals, seq_vars, calls>>

\* lines 194-199 and 123-125: main up to inject_sidecar_metadata
AppSidecar ==
    /\ app_pc = "main199"
    /\ IF "numerology_vector" \in NeAttributes(ne)
       THEN sidecar' = NeVector(ne, SidecarText) /\ app_pc' = "main201"
            /\ UNCHANGED raised
       ELSE raised' = "AttributeError" /\ app_pc' = "crashed"
            /\ UNCHANGED sidecar
    /\ UNCHANGED <<module_present, NUMEROLOGY_AVAILABLE, ne, page, user_input,
                   shown, footer_num_val>>
    /\ UNCHANGED <<engine_globals, seq_vars, calls>>

\* line 201: the user's choice in the selectbox
AppSelectPage ==
    /\ app_pc = "main201"
    /\ page' \in Pages
    /\ app_pc' = "main210"
    /\ UNCHANGED <<module_present, NUMEROLOGY_AVAILABLE, ne, user_input,
                   sidecar, shown, footer_num_val, raised>>
    /\ UNCHANGED <<engine_globals, seq_vars, calls>>

\* lines 210-213: a page other than the numerology page is rendered (the
\* three data pages, or the placeholder for a page without a function)
AppRenderOther ==
    /\ app_pc = "main210"
    /\ page # "Numerology Engine"
    /\ shown' = Append(shown, IF page \in PageFunctions THEN Shown("page", page)
                              ELSE Shown("placeholder", page))
    /\ app_pc' = "main215"
    /\ UNCHANGED <<module_present, NUMEROLOGY_AVAILABLE, ne, page, user_input,
                   sidecar, footer_num_val, raised>>
    /\ UNCHANGED <<engine_globals, seq_vars, calls>>

\* lines 210-211 and 184-187: render_numerology_engine is entered and
\* returns at once when the engine is missing
AppNumerologyGuard ==
    /\ app_pc = "main210"
    /\ page = "Numerology Engine"
    /\ IF EngineMissing
       THEN shown' = Append(shown, Shown("error", "Numerology Engine module could not be loaded."))
            /\ app_pc' = "main215"
       ELSE shown' = shown /\ app_pc' = "rne188"
    /\ UNCHANGED <<module_present, NUMEROLOGY_AVAILABLE, ne, page, user_input,
                   sidecar, footer_num_val, raised>>
    /\ UNCHANGED <<engine_globals, seq_vars, calls>>

\* lines 188-189: the text area's content, scored and shown when not empty
AppCalculator ==
    /\ app_pc = "rne188"
    /\ \E t \in AppInputs :
          /\ user_input' = t
          /\ IF t = <<>>
             THEN shown' = shown /\ app_pc' = "rne190" /\ UNCHANGED raised
             ELSE IF "numerology_vector" \in NeAttributes(ne)
             THEN shown' = Append(shown, Shown("json", NeVector(ne, t)))
                  /\ app_pc' = "rne190"
                  /\ UNCHANGED raised
             ELSE raised' = "AttributeError" /\ app_pc' = "crashed"
                  /\ UNCHANGED shown
    /\ UNCHANGED <<module_present, NUMEROLOGY_AVAILABLE, ne, page, sidecar,
                   footer_num_val>>
    /\ UNCHANGED <<engine_globals, seq_vars, calls>>

\* line 190: the glyph registry is read from ne and shown
AppRegistry ==
    /\ app_pc = "rne190"
    /\ IF "glyph_registry" \in NeAttributes(ne)
       THEN shown' = Append(shown, Shown("dataframe", glyph_registry))
            /\ app_pc' = "main215"
            /\ UNCHANGED raised
       ELSE raised' = "AttributeError" /\ app_pc' = "crashed"
            /\ UNCHANGED shown
    /\ UNCHANGED <<module_present, NUMEROLOGY_AVAILABLE, ne, page, user_input,
                   sidecar, footer_num_val>>
    /\ UNCHANGED <<engine_globals, seq_vars, calls>>

\* lines 215-218: the footer value, "Error" on any exception
AppFooter ==
    /\ app_pc = "main215"
    /\ footer_num_val' =
          IF "numerology_vector" \in NeAttributes(ne)
          THEN FooterValue(NeVector(ne, FooterText))
          ELSE PyStr("Error")
    /\ app_pc' = "end"
    /\ UNCHANGED <<module_present, NUMEROLOGY_AVAILABLE, ne, page, user_input,
                   sidecar, shown, raised>>
    /\ UNCHANGED <<engine_globals, seq_vars, calls>>

\* The script runs again from main() on the next interaction; the import
\* is not repeated.
AppRerun ==
    /\ app_pc = "end"
    /\ app_pc' = "main199"
    /\ sidecar' = Unbound /\ shown' = <<>> /\ footer_num_val' = Unbound
    /\ UNCHANGED <<module_present, NUMEROLOGY_AVAILABLE, ne, page, user_input,
                   raised>>
    /\ UNCHANGED <<engine_globals, seq_vars, calls>>

AppNext ==
    \/ AppImport \/ AppSidecar \/ AppSelectPage \/ AppRenderOther
    \/ AppNumerologyGuard \/ AppCalculator \/ AppRegistry \/ AppFooter
    \/ AppRerun

SpecApp == AppInit /\ [][AppNext]_vars

----------------------------------------------------------------------------
(* Properties of the dashboard *)

\* C10: when numerology_engine cannot be imported, ne is the stand-in whose
\* numerology_vector returns the error marker; nothing raises; the sidecar
\* holds the error marker, the footer value is "N/A", and the numerology
\* page returns before it scores a text or reads glyph_registry.
C10_StandInWhenMissing ==
    (~module_present /\ app_pc # "import") =>
        /\ ~NUMEROLOGY_AVAILABLE
        /\ ne = "DummyNumerologyEngine"
        /\ "glyph_registry" \notin NeAttributes(ne)
        /\ \A t \in AppInputs : NeVector(ne, t) = DummyVector
        /\ raised = "none"
        /\ app_pc \notin {"crashed", "rne188", "rne190"}
        /\ sidecar \in {Unbound, DummyVector}
        /\ app_pc \in {"main201", "main210", "main215", "end"} => sidecar = DummyVector
        /\ app_pc = "end" => footer_num_val = PyStr("N/A")
        /\ \A i \in 1..Len(shown) : shown[i].widget \notin {"json", "dataframe"}

\* the numerology page was chosen without the module and the run ended
C10_Witness ==
    /\ ~module_present /\ page = "Numerology Engine" /\ app_pc = "end"
    /\ sidecar = DummyVector /\ footer_num_val = PyStr("N/A")
    /\ shown = <<Shown("error", "Numerology Engine module could not be loaded.")>>

====
